---- MODULE Spec2Model ----
(***************************************************************************)
(* Model of print_sys_info.py: the byte formatter, the memoized network    *)
(* resolver, the filesystem inspector and the six-section renderer.        *)
(*                                                                         *)
(* Byte counts that reach format_bytes are little-endian sequences of      *)
(* base-1024 digits, so that counts beyond the petabyte range (and beyond  *)
(* the 53-bit significand of a Python float) can be represented exactly.   *)
(***************************************************************************)
EXTENDS Integers, Sequences, FiniteSets, TLC

VARIABLES
    bytes_value,    \* argument handed to format_bytes (digit sequence)
    fmt_ret,        \* string returned by format_bytes, or None
    fmt_pc,         \* "call" before format_bytes runs, "done" after
    os_name,        \* os.name of the host
    run_mode,       \* "script": run as __main__; "imported": a client calls the two getters
    ctypes_loaded,  \* the module global ctypes is bound
    pc,             \* position of the interpreter
    main_status,    \* "not_run", "running", "returned" or "raised"
    out,            \* the sections written to standard output so far
    net_cache,      \* the lru_cache slot of get_network_info: << >> or <<record>>
    resolve_count,  \* how often the body of get_network_info ran
    net_log,        \* one entry per call of get_network_info, in call order
    fs_query,       \* what the host answered to the last filesystem query
    fs_locals,      \* total, available, used of the last get_filesystem_info
    fs_ret,         \* outcome of the last get_filesystem_info
    calls           \* calls made by the importing client

(***************************************************************************)
(* Bounds                                                                  *)
(***************************************************************************)
\* number of base-1024 digits of the byte counts tried (7 digits: < 2^70)
NDigits == 7

\* calls an importing client makes to the module's functions
MaxCalls == 3

(***************************************************************************)
(* Values                                                                  *)
(***************************************************************************)
None == "None"

\* one base-1024 digit is ten bits
Radix == 1024

\* digit values tried at every position of a byte count
DigitVals == {0, 1, 8, 128, 512, 1023}

(***************************************************************************)
(* Arithmetic on digit sequences                                           *)
(***************************************************************************)
Digit(d, i) == IF i >= 1 /\ i <= Len(d) THEN d[i] ELSE 0

RECURSIVE DigitsOf(_, _)
DigitsOf(n, len) ==
    IF len = 0 THEN << >> ELSE <<n % Radix>> \o DigitsOf(n \div Radix, len - 1)

\* index of the most significant non-zero digit, 0 for the number zero
TopIndex(d) ==
    IF \A i \in 1..Len(d) : d[i] = 0 THEN 0
    ELSE CHOOSE i \in 1..Len(d) : d[i] # 0 /\ \A j \in (i+1)..Len(d) : d[j] = 0

RECURSIVE BitLen(_)
BitLen(x) == IF x = 0 THEN 0 ELSE 1 + BitLen(x \div 2)

BitLength(d) ==
    IF TopIndex(d) = 0 THEN 0 ELSE 10 * (TopIndex(d) - 1) + BitLen(d[TopIndex(d)])

\* d + c * Radix^(i-1), carrying upwards
RECURSIVE AddAt(_, _, _)
AddAt(d, i, c) ==
    IF c = 0 THEN d
    ELSE IF i > Len(d) THEN Append(d, c)
    ELSE AddAt([d EXCEPT ![i] = (d[i] + c) % Radix], i + 1, (d[i] + c) \div Radix)

\* d * m for a small multiplier m, one digit longer than d
RECURSIVE MulFrom(_, _, _, _)
MulFrom(d, m, i, carry) ==
    IF i > Len(d) THEN <<carry>>
    ELSE <<(d[i] * m + carry) % Radix>> \o MulFrom(d, m, i + 1, (d[i] * m + carry) \div Radix)

MulSmall(d, m) == MulFrom(d, m, 1, 0)

\* the digits of d from position i upwards, as an integer
RECURSIVE ValueFrom(_, _)
ValueFrom(d, i) == IF i > Len(d) THEN 0 ELSE d[i] + Radix * ValueFrom(d, i + 1)

(***************************************************************************)
(* Python float: int / int true division rounds the quotient to a 53-bit   *)
(* significand, ties to even; dividing a float by 1024 is then exact.      *)
(***************************************************************************)
MantissaBits == 53

\* d rounded to a multiple of 2^q, ties to even (q >= 1)
RoundAtBit(d, q) ==
    LET dq   == q \div 10
        rq   == q % 10
        idx  == dq + 1
        part == d[idx] % (2 ^ rq)
        half == IF rq >= 1 THEN part >= 2 ^ (rq - 1) ELSE d[dq] >= 512
        rest == IF rq >= 1
                THEN (part % (2 ^ (rq - 1)) # 0) \/ (\E i \in 1..dq : d[i] # 0)
                ELSE (d[dq] % 512 # 0) \/ (\E i \in 1..(dq - 1) : d[i] # 0)
        odd  == (d[idx] \div (2 ^ rq)) % 2 = 1
        cut  == [i \in 1..Len(d) |->
                    IF i < idx THEN 0 ELSE IF i = idx THEN d[i] - part ELSE d[i]]
    IN  IF half /\ (rest \/ odd) THEN AddAt(cut, idx, 2 ^ rq) ELSE cut

RoundToDouble(d) ==
    IF BitLength(d) <= MantissaBits THEN d ELSE RoundAtBit(d, BitLength(d) - MantissaBits)

(***************************************************************************)
(* format_bytes.  A value is mant / 1024^exp; exp = 0 is the int argument. *)
(***************************************************************************)
Units == <<"B", "KB", "MB", "GB", "TB">>

\* bytes_value /= 1024
TrueDiv1024(v) ==
    IF v.exp = 0 THEN [mant |-> RoundToDouble(v.mant), exp |-> 1]
    ELSE [mant |-> v.mant, exp |-> v.exp + 1]

\* bytes_value < 1024
Below1024(v) == \A i \in (v.exp + 2)..Len(v.mant) : v.mant[i] = 0

TwoDigits(c) == IF c < 10 THEN "0" \o ToString(c) ELSE ToString(c)

\* f"{v:.2f}": the decimal nearest to the exact binary value, ties to even
Format2f(v) ==
    LET frac   == SubSeq(v.mant, 1, v.exp)
        scaled == MulSmall(frac, 100)
        floorc == scaled[v.exp + 1]
        top    == Digit(scaled, v.exp)
        rest   == \E i \in 1..(v.exp - 1) : scaled[i] # 0
        up     == \/ top > 512
                  \/ top = 512 /\ rest
                  \/ top = 512 /\ ~rest /\ floorc % 2 = 1
        cents  == IF v.exp > 0 /\ up THEN floorc + 1 ELSE floorc
        whole  == ValueFrom(v.mant, v.exp + 1) + (cents \div 100)
    IN  ToString(whole) \o "." \o TwoDigits(cents % 100)

RECURSIVE FormatLoop(_, _)
FormatLoop(v, i) ==
    IF i > Len(Units) THEN Format2f(v) \o " PB"
    ELSE IF Below1024(v) THEN Format2f(v) \o " " \o Units[i]
    ELSE FormatLoop(TrueDiv1024(v), i + 1)

format_bytes(b) == FormatLoop([mant |-> b, exp |-> 0], 1)

FromInt(n) == DigitsOf(n, NDigits)

(***************************************************************************)
(* Outcomes of a call: a returned value or a raised exception              *)
(***************************************************************************)
Return(v) == [kind |-> "return", value |-> v]

Raise(e) == [kind |-> "raise", value |-> [exc |-> e]]

(***************************************************************************)
(* get_network_info                                                        *)
(***************************************************************************)
Hostnames == {"box", "box.lan"}

Addresses == {"192.168.0.7"}

\* socket.error is OSError; gaierror and herror are subclasses of it
SocketErrors == {"OSError", "gaierror"}

Answer(v) == [kind |-> "ok", value |-> v]

Fails(e) == [kind |-> "raise", value |-> e]

\* a lookup after one that raised is never made
Unasked == [kind |-> "unasked", value |-> ""]

\* socket.gethostname()
HostnameAnswers == {Answer(h) : h \in Hostnames} \cup {Fails("OSError")}

\* socket.gethostbyname(hostname): a resolver error, or UnicodeError from
\* the idna encoding of a hostname with an over-long or empty label
AddressAnswers == {Answer(a) : a \in Addresses} \cup {Fails("gaierror"), Fails("UnicodeError")}

\* socket.getfqdn()
FqdnAnswers == {Answer(h) : h \in Hostnames} \cup {Fails("OSError"), Fails("UnicodeError")}

NetAnswers ==
    { a \in (HostnameAnswers \cup {Unasked}) \X (AddressAnswers \cup {Unasked})
                \X (FqdnAnswers \cup {Unasked}) :
        /\ a[1] # Unasked
        /\ a[2] = Unasked <=> a[1].kind = "raise"
        /\ a[3] = Unasked <=> a[2].kind # "ok" }

\* index of the lookup that raised, 0 when all three answered
FirstRaise(answers) ==
    IF \E i \in 1..3 : answers[i].kind = "raise"
    THEN CHOOSE i \in 1..3 : answers[i].kind = "raise"
    ELSE 0

\* the try branch without the comparison of fqdn with hostname
NetworkRecordKeepingFqdn(hostname, ip_address, fqdn) ==
    [hostname |-> hostname, ip_address |-> ip_address, fqdn |-> fqdn]

\* the dict of the try branch
NetworkRecord(hostname, ip_address, fqdn) ==
    [hostname |-> hostname,
     ip_address |-> ip_address,
     fqdn |-> IF fqdn # hostname THEN fqdn ELSE None]

\* the dict of the except branch
Unavailable == [hostname |-> None, ip_address |-> None, fqdn |-> None]

\* the body of get_network_info, under the lru_cache wrapper
ResolveBody(answers) ==
    IF FirstRaise(answers) = 0
    THEN Return(NetworkRecord(answers[1].value, answers[2].value, answers[3].value))
    ELSE IF answers[FirstRaise(answers)].value \in SocketErrors
    THEN Return(Unavailable)
    ELSE Raise(answers[FirstRaise(answers)].value)

CacheHit == net_cache # << >>

\* what a call of the wrapped function gives its caller
NetOutcome(answers) == IF CacheHit THEN Return(net_cache[1]) ELSE ResolveBody(answers)

\* lru_cache(maxsize=1): a returned value is stored, a raised exception is not
CacheAfter(answers) ==
    IF ~CacheHit /\ ResolveBody(answers).kind = "return"
    THEN <<ResolveBody(answers).value>>
    ELSE net_cache

get_network_info(answers) ==
    /\ net_log' = Append(net_log, [computed |-> ~CacheHit,
                                   answers  |-> IF CacheHit THEN << >> ELSE answers,
                                   outcome  |-> NetOutcome(answers)])
    /\ resolve_count' = IF CacheHit THEN resolve_count ELSE resolve_count + 1
    /\ net_cache' = CacheAfter(answers)

(***************************************************************************)
(* get_filesystem_info                                                     *)
(***************************************************************************)
OsNames == {"posix", "nt", "java"}

FragmentSizes == {512, 4096}

BlockCounts == {0, 3, 262144}

MountFlags == {0, 4096}

VolumeSizes == {0, 1536, 1073741824}

NoQuery == [kind |-> "none"]

\* os.statvfs("."): a result, or FileNotFoundError / another OSError
StatvfsAnswers ==
    { [kind |-> "ok", f_frsize |-> s, f_blocks |-> n, f_bavail |-> a, f_flag |-> g] :
        s \in FragmentSizes, n \in BlockCounts, a \in BlockCounts \cup {1}, g \in MountFlags }
    \cup { [kind |-> e, f_frsize |-> 0, f_blocks |-> 0, f_bavail |-> 0, f_flag |-> 0] :
        e \in {"FileNotFoundError", "OSError"} }

\* ctypes.windll.kernel32.GetDiskFreeSpaceExW(...): the call fills the three
\* counters and returns non-zero ("ok"), returns zero and leaves them
\* untouched ("failed"), or the attribute lookup or the call raises
DiskFreeSpaceAnswers ==
    { [kind |-> "ok", free |-> f, total |-> t] : f \in VolumeSizes, t \in VolumeSizes }
    \cup { [kind |-> e, free |-> 0, total |-> 0] : e \in {"failed", "AttributeError", "OSError"} }

\* the answers the host can give: no more free space than space
FsAnswers(os, loaded) ==
    IF os = "posix" THEN {q \in StatvfsAnswers : q.f_bavail <= q.f_blocks}
    ELSE IF os = "nt" /\ loaded THEN {q \in DiskFreeSpaceAnswers : q.free <= q.total}
    ELSE {NoQuery}

NoFigures == [total |-> 0, available |-> 0, used |-> 0]

\* the POSIX figures with the subtraction the wrong way round
PosixFiguresReversed(statvfs) ==
    [total     |-> statvfs.f_frsize * statvfs.f_blocks,
     available |-> statvfs.f_frsize * statvfs.f_bavail,
     used      |-> statvfs.f_frsize * statvfs.f_bavail - statvfs.f_frsize * statvfs.f_blocks]

PosixFigures(statvfs) ==
    [total     |-> statvfs.f_frsize * statvfs.f_blocks,
     available |-> statvfs.f_frsize * statvfs.f_bavail,
     used      |-> statvfs.f_frsize * statvfs.f_blocks - statvfs.f_frsize * statvfs.f_bavail]

PosixRecord(statvfs) ==
    [total     |-> format_bytes(FromInt(PosixFigures(statvfs).total)),
     available |-> format_bytes(FromInt(PosixFigures(statvfs).available)),
     used      |-> format_bytes(FromInt(PosixFigures(statvfs).used)),
     type      |-> statvfs.f_flag]

\* the c_ulonglong counters start at 0 and are read back after the call
NtFigures(api) ==
    [total     |-> api.total,
     available |-> api.free,
     used      |-> api.total - api.free]

NtRecord(api) ==
    [total     |-> format_bytes(FromInt(NtFigures(api).total)),
     available |-> format_bytes(FromInt(NtFigures(api).available)),
     used      |-> format_bytes(FromInt(NtFigures(api).used))]

ReturnNone == [kind |-> "None", value |-> [none |-> TRUE]]

ReturnDict(d) == [kind |-> "dict", value |-> d]

get_filesystem_info(os, loaded, q) ==
    IF os = "posix"
    THEN IF q.kind = "ok" THEN ReturnDict(PosixRecord(q)) ELSE ReturnNone
    ELSE IF os = "nt"
    THEN IF ~loaded THEN Raise("NameError")
         ELSE IF q.kind \in {"AttributeError", "OSError"} THEN ReturnNone
         ELSE ReturnDict(NtRecord(q))
    ELSE ReturnNone

\* the locals total, available, used of the call
FiguresOf(os, loaded, q) ==
    IF os = "posix" /\ q.kind = "ok" THEN PosixFigures(q)
    ELSE IF os = "nt" /\ loaded /\ q.kind \in {"ok", "failed"} THEN NtFigures(q)
    ELSE NoFigures

FilesystemCall(q) ==
    /\ fs_query' = q
    /\ fs_locals' = FiguresOf(os_name, ctypes_loaded, q)
    /\ fs_ret' = get_filesystem_info(os_name, ctypes_loaded, q)

(***************************************************************************)
(* main: six sections written with console.print                           *)
(***************************************************************************)
Section(kind, body) == [kind |-> kind, body |-> body]

Opaque == "..."

NotDetermined == "[red]Could not be determined[/red]"

NoFilesystem == "[red]Could not get filesystem information[/red]"

\* x or default
Or(x, default) == IF x = None \/ x = "" THEN default ELSE x

TitleBanner == Section("banner", << <<"System Information", "">> >>)

OsTree(os) ==
    Section("os_tree",
        << <<"Name", Opaque>>, <<"Release", Opaque>>, <<"Version", Opaque>>,
           <<"Platform", Opaque>>, <<"Architecture", Opaque>>, <<"Machine", Opaque>>,
           <<"Processor", Opaque>> >>
        \o (IF os = "nt" THEN << <<"Windows Edition", Opaque>> >> ELSE << >>))

PythonTable ==
    Section("python_table",
        << <<"Version", Opaque>>, <<"Compiler", Opaque>>, <<"Implementation", Opaque>>,
           <<"Executable", Opaque>>, <<"API Version", Opaque>> >>)

\* a panel that leaves out the lines of the unavailable fields
NetworkPanelOmitting(net_info) ==
    Section("network_panel",
        SelectSeq(<< <<"Hostname:", net_info.hostname>>,
                     <<"IP Address:", net_info.ip_address>>,
                     <<"FQDN:", net_info.fqdn>> >>,
                  LAMBDA line : line[2] # None /\ line[2] # ""))

NetworkPanel(net_info) ==
    Section("network_panel",
        << <<"Hostname:", Or(net_info.hostname, NotDetermined)>>,
           <<"IP Address:", Or(net_info.ip_address, NotDetermined)>>,
           <<"FQDN:", Or(net_info.fqdn, NotDetermined)>> >>)

\* if fs_info: a dict is true unless it is empty
Truthy(fs_info) == fs_info.kind = "dict" /\ DOMAIN fs_info.value # {}

FilesystemSection(fs_info) ==
    IF Truthy(fs_info)
    THEN Section("fs_table",
            << <<"Total Size", fs_info.value.total>>,
               <<"Available Space", fs_info.value.available>>,
               <<"Used Space", fs_info.value.used>> >>
            \o (IF "type" \in DOMAIN fs_info.value
                THEN << <<"Filesystem Type", ToString(fs_info.value.type)>> >>
                ELSE << >>))
    ELSE Section("fs_message", << <<NoFilesystem, "">> >>)

TimePanel ==
    Section("time_panel",
        << <<"Current Time (UTC):", Opaque>>, <<"Current Time (Local):", Opaque>>,
           <<"Current Timezone:", Opaque>> >>)

fmt_vars == <<bytes_value, fmt_ret, fmt_pc>>

net_vars == <<net_cache, resolve_count, net_log>>

fs_vars == <<fs_query, fs_locals, fs_ret>>

host_vars == <<os_name, run_mode>>

vars == <<bytes_value, fmt_ret, fmt_pc, os_name, run_mode, ctypes_loaded, pc,
          main_status, out, net_cache, resolve_count, net_log,
          fs_query, fs_locals, fs_ret, calls>>

Init ==
    /\ bytes_value = FromInt(0)
    /\ fmt_ret = None
    /\ fmt_pc = "unused"
    /\ os_name \in OsNames
    /\ run_mode \in {"script", "imported"}
    /\ ctypes_loaded = FALSE
    /\ pc = IF run_mode = "script" THEN "entry" ELSE "idle"
    /\ main_status = "not_run"
    /\ out = << >>
    /\ net_cache = << >>
    /\ resolve_count = 0
    /\ net_log = << >>
    /\ fs_query = NoQuery
    /\ fs_locals = NoFigures
    /\ fs_ret = ReturnNone
    /\ calls = 0

\* if __name__ == "__main__": import ctypes on Windows, then main()
ScriptEntry ==
    /\ pc = "entry"
    /\ ctypes_loaded' = (os_name = "nt")
    /\ pc' = "banner"
    /\ main_status' = "running"
    /\ UNCHANGED <<fmt_vars, host_vars, out, net_vars, fs_vars, calls>>

\* a client that imported the module calls get_network_info()
CallGetNetworkInfo ==
    /\ pc = "idle"
    /\ calls < MaxCalls
    /\ calls' = calls + 1
    /\ \E answers \in NetAnswers : get_network_info(answers)
    /\ UNCHANGED <<fmt_vars, host_vars, ctypes_loaded, pc, main_status, out, fs_vars>>

\* a client that imported the module calls get_filesystem_info()
CallGetFilesystemInfo ==
    /\ pc = "idle"
    /\ calls < MaxCalls
    /\ calls' = calls + 1
    /\ \E q \in FsAnswers(os_name, ctypes_loaded) : FilesystemCall(q)
    /\ UNCHANGED <<fmt_vars, host_vars, ctypes_loaded, pc, main_status, out, net_vars>>

\* main ends: by returning, or by an exception nothing catches
AfterMain(status) ==
    /\ main_status' = status
    /\ pc' = IF status = "raised" THEN "crashed" ELSE "exit"

PrintBanner ==
    /\ pc = "banner"
    /\ out' = Append(out, TitleBanner)
    /\ pc' = "os_tree"
    /\ UNCHANGED <<fmt_vars, host_vars, ctypes_loaded, main_status, net_vars, fs_vars, calls>>

PrintOsTree ==
    /\ pc = "os_tree"
    /\ out' = Append(out, OsTree(os_name))
    /\ pc' = "python_table"
    /\ UNCHANGED <<fmt_vars, host_vars, ctypes_loaded, main_status, net_vars, fs_vars, calls>>

PrintPythonTable ==
    /\ pc = "python_table"
    /\ out' = Append(out, PythonTable)
    /\ pc' = "network_panel"
    /\ UNCHANGED <<fmt_vars, host_vars, ctypes_loaded, main_status, net_vars, fs_vars, calls>>

PrintNetworkPanel ==
    /\ pc = "network_panel"
    /\ \E answers \in NetAnswers :
        /\ get_network_info(answers)
        /\ IF NetOutcome(answers).kind = "return"
           THEN /\ out' = Append(out, NetworkPanel(NetOutcome(answers).value))
                /\ pc' = "fs_section"
                /\ UNCHANGED main_status
           ELSE /\ AfterMain("raised")
                /\ UNCHANGED out
    /\ UNCHANGED <<fmt_vars, host_vars, ctypes_loaded, fs_vars, calls>>

PrintFilesystemSection ==
    /\ pc = "fs_section"
    /\ \E q \in FsAnswers(os_name, ctypes_loaded) :
        /\ FilesystemCall(q)
        /\ IF get_filesystem_info(os_name, ctypes_loaded, q).kind # "raise"
           THEN /\ out' = Append(out, FilesystemSection(get_filesystem_info(os_name, ctypes_loaded, q)))
                /\ pc' = "time_panel"
                /\ UNCHANGED main_status
           ELSE /\ AfterMain("raised")
                /\ UNCHANGED out
    /\ UNCHANGED <<fmt_vars, host_vars, ctypes_loaded, net_vars, calls>>

PrintTimePanel ==
    /\ pc = "time_panel"
    /\ out' = Append(out, TimePanel)
    /\ AfterMain("returned")
    /\ UNCHANGED <<fmt_vars, host_vars, ctypes_loaded, net_vars, fs_vars, calls>>

Next ==
    \/ ScriptEntry
    \/ CallGetNetworkInfo
    \/ CallGetFilesystemInfo
    \/ PrintBanner
    \/ PrintOsTree
    \/ PrintPythonTable
    \/ PrintNetworkPanel
    \/ PrintFilesystemSection
    \/ PrintTimePanel

Spec == Init /\ [][Next]_vars

(***************************************************************************)
(* SpecFmt: format_bytes applied to every byte count of the bounded set.   *)
(***************************************************************************)
ByteCounts == [1..NDigits -> DigitVals]

InitFmt ==
    /\ bytes_value \in ByteCounts
    /\ fmt_ret = None
    /\ fmt_pc = "call"
    /\ os_name = "posix"
    /\ run_mode = "imported"
    /\ ctypes_loaded = FALSE
    /\ pc = "idle"
    /\ main_status = "not_run"
    /\ out = << >>
    /\ net_cache = << >>
    /\ resolve_count = 0
    /\ net_log = << >>
    /\ fs_query = NoQuery
    /\ fs_locals = NoFigures
    /\ fs_ret = ReturnNone
    /\ calls = 0

CallFormatBytes ==
    /\ fmt_pc = "call"
    /\ fmt_ret' = format_bytes(bytes_value)
    /\ fmt_pc' = "done"
    /\ UNCHANGED <<bytes_value, host_vars, ctypes_loaded, pc, main_status, out,
                   net_vars, fs_vars, calls>>

NextFmt == CallFormatBytes

SpecFmt == InitFmt /\ [][NextFmt]_vars

(***************************************************************************)
(* Reading a returned string back: "<whole>.<cents> <unit>"                *)
(***************************************************************************)
CharAt(s, i) == SubSeq(s, i, i)

IndexOf(s, ch) == CHOOSE i \in 1..Len(s) : CharAt(s, i) = ch

UnitOf(s) == SubSeq(s, IndexOf(s, " ") + 1, Len(s))

DigitChar(ch) == CHOOSE n \in 0..9 : ToString(n) = ch

RECURSIVE ParseNat(_, _)
ParseNat(s, n) ==
    IF n = 0 THEN 0 ELSE 10 * ParseNat(s, n - 1) + DigitChar(CharAt(s, n))

WholeOf(s) == ParseNat(s, IndexOf(s, ".") - 1)

CentsOf(s) == 10 * DigitChar(CharAt(s, IndexOf(s, ".") + 1))
              + DigitChar(CharAt(s, IndexOf(s, ".") + 2))

AllUnits == {"B", "KB", "MB", "GB", "TB", "PB"}

(***************************************************************************)
(* The byte formatter's contract, in exact arithmetic                      *)
(***************************************************************************)
\* x <= y for digit sequences of the same length
RECURSIVE LeqFrom(_, _, _)
LeqFrom(x, y, i) ==
    IF i = 0 THEN TRUE
    ELSE IF x[i] # y[i] THEN x[i] < y[i]
    ELSE LeqFrom(x, y, i - 1)

Leq(x, y) == LeqFrom(x, y, Len(x))

\* c * 1024^k as k + 1 digits
Shifted(c, k) == [i \in 1..(k + 1) |-> IF i = k + 1 THEN c ELSE 0]

\* the smallest k in 0..5 with b / 1024^k < 1024, and 5 when there is none
ScaleOf(b) ==
    IF \E k \in 0..5 : TopIndex(b) <= k + 1
    THEN CHOOSE k \in 0..5 : TopIndex(b) <= k + 1 /\ \A j \in 0..(k - 1) : TopIndex(b) > j + 1
    ELSE 5

UnitAt(k) == IF k = 5 THEN "PB" ELSE Units[k + 1]

\* p hundredths is a nearest two-decimal rendering of frac / 1024^k
NearestHundredths(frac, k, p) ==
    /\ Leq(MulSmall(frac, 200), Shifted(2 * p + 1, k))
    /\ p = 0 \/ Leq(Shifted(2 * p - 1, k), MulSmall(frac, 200))

\* s is b scaled by 1024^ScaleOf(b), to two decimals, with the unit
IsScaledText(s, b) ==
    LET k == ScaleOf(b)
        w == ValueFrom(b, k + 1)
    IN  /\ UnitOf(s) = UnitAt(k)
        /\ s = ToString(WholeOf(s)) \o "." \o TwoDigits(CentsOf(s)) \o " " \o UnitOf(s)
        /\ WholeOf(s) \in {w, w + 1}
        /\ NearestHundredths(SubSeq(b, 1, k), k, (WholeOf(s) - w) * 100 + CentsOf(s))

PowerOf1024(k) == [i \in 1..NDigits |-> IF i = k + 1 THEN 1 ELSE 0]

\* C1: format_bytes(b) is b scaled to the largest unit that keeps the value
\* below 1024 (PB when there is none), to two decimal places, with the unit;
\* and the six listed examples.
C1_ScaledToLargestUnit ==
    fmt_pc = "done" =>
        /\ IsScaledText(fmt_ret, bytes_value)
        /\ bytes_value = FromInt(0) => fmt_ret = "0.00 B"
        /\ bytes_value = FromInt(1024) => fmt_ret = "1.00 KB"
        /\ bytes_value = FromInt(1536) => fmt_ret = "1.50 KB"
        /\ bytes_value = PowerOf1024(4) => fmt_ret = "1.00 TB"
        /\ bytes_value = PowerOf1024(5) => fmt_ret = "1.00 PB"
        /\ bytes_value = PowerOf1024(6) => fmt_ret = "1024.00 PB"

\* C2: the returned string ends in one of the six units, and the number it
\* prints is below 1024.00 unless the unit is PB.
C2_PrintedBelow1024 ==
    fmt_pc = "done" =>
        /\ UnitOf(fmt_ret) \in AllUnits
        /\ UnitOf(fmt_ret) # "PB" => WholeOf(fmt_ret) < 1024

(***************************************************************************)
(* The network resolver                                                    *)
(***************************************************************************)
\* C3: over any sequence of calls the resolution runs at most once, and
\* every call gives its caller what the first call gave.
C3_ResolvedAtMostOnce ==
    /\ resolve_count <= 1
    /\ \A i \in 1..Len(net_log) : net_log[i].outcome = net_log[1].outcome

\* C4: a call whose resolution failed, at whichever lookup and with whatever
\* error, returns the record with all three fields unavailable.
C4_FailureAllUnavailable ==
    \A i \in 1..Len(net_log) :
        (net_log[i].computed /\ FirstRaise(net_log[i].answers) # 0)
            => net_log[i].outcome = Return(Unavailable)

\* the record main holds once the network panel is written
PanelWritten == pc \in {"fs_section", "time_panel", "exit"} /\ Len(out) >= 4

NetInfoOfMain == net_log[Len(net_log)].outcome.value

\* C10: the FQDN of a computed record is unavailable exactly when the
\* resolution failed or the resolved FQDN equals the hostname; a resolution
\* that succeeds with FQDN = hostname keeps hostname and address, and main
\* prints that FQDN with the "Could not be determined" marker.
C10_FqdnUnavailableIff ==
    /\ \A i \in 1..Len(net_log) :
        LET e == net_log[i] IN
        (e.computed /\ e.outcome.kind = "return") =>
            /\ e.outcome.value.fqdn = None
                <=> (FirstRaise(e.answers) # 0 \/ e.answers[3].value = e.answers[1].value)
            /\ (FirstRaise(e.answers) = 0 /\ e.answers[3].value = e.answers[1].value)
                => /\ e.outcome.value.hostname = e.answers[1].value
                   /\ e.outcome.value.ip_address = e.answers[2].value
    /\ (PanelWritten /\ NetInfoOfMain.fqdn = None)
            => out[4].body[3] = <<"FQDN:", NotDetermined>>

\* a run in which all three lookups answered, FQDN equal to the hostname,
\* and the panel shows the hostname and the marker for the FQDN
C10_Witness ==
    /\ PanelWritten
    /\ FirstRaise(net_log[1].answers) = 0
    /\ net_log[1].answers[3].value = net_log[1].answers[1].value
    /\ out[4].body[1][2] = net_log[1].answers[1].value
    /\ out[4].body[3][2] = NotDetermined

\* every combination of available and unavailable fields
NetRecords ==
    [hostname : Hostnames \cup {None}, ip_address : Addresses \cup {None},
     fqdn : Hostnames \cup {None}]

Shown(field) == IF field = None THEN NotDetermined ELSE field

\* C8: the network panel always has the three labelled lines in order, and
\* a field that is unavailable is printed as the "Could not be determined"
\* marker, a field that is available as its value: for the record main
\* holds, and for every combination of available and unavailable fields.
C8_PanelShapeStable ==
    /\ PanelWritten =>
        /\ out[4].kind = "network_panel"
        /\ out[4].body = << <<"Hostname:", Shown(NetInfoOfMain.hostname)>>,
                            <<"IP Address:", Shown(NetInfoOfMain.ip_address)>>,
                            <<"FQDN:", Shown(NetInfoOfMain.fqdn)>> >>
    /\ \A net_info \in NetRecords :
        NetworkPanel(net_info).body = << <<"Hostname:", Shown(net_info.hostname)>>,
                                         <<"IP Address:", Shown(net_info.ip_address)>>,
                                         <<"FQDN:", Shown(net_info.fqdn)>> >>

\* a panel written for the record with every field unavailable
C8_Witness ==
    /\ PanelWritten
    /\ NetInfoOfMain = Unavailable
    /\ \A i \in 1..3 : out[4].body[i][2] = NotDetermined

(***************************************************************************)
(* The filesystem inspector                                                *)
(***************************************************************************)
\* C5: unless the filesystem query succeeded, get_filesystem_info returns
\* None: no exception reaches the caller and no record is returned.
C5_FailureYieldsNone ==
    fs_query.kind # "ok" => fs_ret = ReturnNone

Kinds(sections) == [i \in 1..Len(sections) |-> sections[i].kind]

SixSections(fs_kind) ==
    <<"banner", "os_tree", "python_table", "network_panel", fs_kind, "time_panel">>

\* C6: a run of main that has ended wrote the six sections, each once, in
\* the fixed order, the fifth being the filesystem table or the message.
C6_SixSectionsInOrder ==
    pc \in {"exit", "crashed"} =>
        Kinds(out) \in {SixSections("fs_table"), SixSections("fs_message")}

\* C7: when the filesystem query did not succeed the filesystem section is
\* exactly the failure message; a table is written only for a record, and
\* then with the Total Size, Available Space and Used Space rows filled.
C7_FailureMessageOnly ==
    (pc \in {"time_panel", "exit"} /\ Len(out) >= 5) =>
        /\ fs_query.kind # "ok" => out[5] = Section("fs_message", << <<NoFilesystem, "">> >>)
        /\ out[5].kind = "fs_table" =>
            /\ fs_ret.kind = "dict"
            /\ Len(out[5].body) >= 3
            /\ out[5].body[1] = <<"Total Size", fs_ret.value.total>>
            /\ out[5].body[2] = <<"Available Space", fs_ret.value.available>>
            /\ out[5].body[3] = <<"Used Space", fs_ret.value.used>>
            /\ \A i \in 1..3 : out[5].body[i][2] # ""

====
